---- MODULE Spec2Model ----
(***************************************************************************)
(* Model of the monitoring application's request handlers.                 *)
(*                                                                         *)
(* The API handler                                                         *)
(* (infrastructure/outputs.json/asset.3049.../lambda_function.py): the     *)
(* module-level circuit breaker, its three operations, and lambda_handler  *)
(* with its route handlers.                                                *)
(*   SpecBreaker  the three breaker functions called directly, in any      *)
(*                order, with the clock advancing (the unit-test level);   *)
(*   Spec         lambda_handler invocations handled concurrently, each    *)
(*                breaker operation atomic;                                *)
(*   SpecSeq      lambda_handler invocations handled one at a time;        *)
(*   SpecPost     POST /metrics invocations recorded with their inputs,    *)
(*                and the log processor consuming the queue;               *)
(*   SpecRace     record_circuit_breaker_failure called by two threads,    *)
(*                the read and the write of the counter separate steps;    *)
(*   SpecLive     SpecSeq under fairness, with no failure recorded once    *)
(*                the breaker has left CLOSED.                             *)
(*                                                                         *)
(* The resilient-api handler (lambda/resilient-api/lambda_function.py):    *)
(*   SpecResilient  lambda_handler invocations handled one at a time,      *)
(*                  recorded with their inputs;                            *)
(*   SpecResilientConc  invocations of two execution contexts overlapping. *)
(*                                                                         *)
(*   SpecHealth   both handlers, one request at a time each, serving       *)
(*                /health and failing requests.                            *)
(*                                                                         *)
(* The health monitor                                                      *)
(* (infrastructure/outputs.json/asset.cd06.../lambda_function.py):         *)
(*   SpecMonitor  one scheduled invocation, recorded with the outcomes of  *)
(*                its probes, of the store and of the metrics sink;        *)
(*   SpecSink     one call of send_cloudwatch_metrics.                     *)
(*                                                                         *)
(* The specifications share the variables; each leaves the variables of    *)
(* the others as Init set them.                                            *)
(***************************************************************************)
EXTENDS Integers, Sequences, FiniteSets, TLC

VARIABLES
    circuit_breaker,   \* the module-level dict: failures, last_failure_time, state
    now,               \* time.time(), in whole seconds
    ret,               \* SpecBreaker: the last direct call and its return value
    fail_run,          \* SpecBreaker ghost: failures recorded since the last recorded success
    other_called,      \* SpecBreaker ghost: some call other than record_circuit_breaker_failure was made
    fails_since_reset, \* SpecBreaker ghost: failures recorded since the last HALF_OPEN -> CLOSED reset
    req,               \* Spec: per execution context, the lambda_handler invocation in progress
    last,              \* Spec: the invocation completed most recently, with its response
    store_fail_run,    \* Spec ghost: completed requests in a row answered 500 because the store operation raised
    post_call,         \* SpecPost: the last POST /metrics invocation, with its inputs and response
    r_circuit_breaker, \* SpecResilient: the resilient-api module's dict: failure_count, last_failure_time, state
    r_last,            \* SpecResilient: the last resilient-api invocation, with its inputs and response
    r_req,             \* SpecResilientConc: per execution context, the resilient-api invocation in progress
    monitor,           \* SpecMonitor: the health-monitor invocation, with its inputs and result
    sink,              \* SpecSink: the send_cloudwatch_metrics call, with its results and its put_metric_data calls
    thr,               \* SpecRace: per thread, its position in record_circuit_breaker_failure and the value it read
    calls_done         \* SpecRace ghost: calls of record_circuit_breaker_failure that have returned

vars == <<circuit_breaker, now, ret, fail_run, other_called, fails_since_reset,
          req, last, store_fail_run, post_call, r_circuit_breaker, r_last, r_req,
          monitor, sink, thr, calls_done>>

breakerGhosts == <<ret, fail_run, other_called, fails_since_reset>>
handlerVars == <<req, last, store_fail_run>>
postVars == <<post_call>>
resilientVars == <<r_circuit_breaker, r_last, r_req>>
monitorVars == <<monitor, sink>>
raceVars == <<thr, calls_done>>
otherVars == <<postVars, resilientVars, monitorVars, raceVars>>

----------------------------------------------------------------------------
(* Bounds *)

MaxTime == 65
MaxFailures == 6
MaxStoreFailRun == 6

(* Program constants *)

None == -1
failure_threshold == 5
timeout == 60

Procs == {"ctx1", "ctx2"}

\* The clock advances in steps that put the elapsed time just below, on and
\* just above the breaker timeout.
TickSteps == {timeout - 1, timeout, timeout + 1}

----------------------------------------------------------------------------
(* The circuit breaker *)

circuit_breaker_init ==
    [failures |-> 0, last_failure_time |-> None, state |-> "CLOSED"]

\* Variant: the timeout test is >= instead of >.
is_circuit_breaker_closed_ge(cb, current_time) ==
    IF cb.state = "OPEN"
    THEN IF (current_time - cb.last_failure_time) >= timeout
         THEN [cb |-> [cb EXCEPT !.state = "HALF_OPEN"], result |-> TRUE]
         ELSE [cb |-> cb, result |-> FALSE]
    ELSE [cb |-> cb, result |-> TRUE]

\* Variant: the OPEN -> HALF_OPEN transition also clears the counter.
is_circuit_breaker_closed_clears(cb, current_time) ==
    IF cb.state = "OPEN"
    THEN IF (current_time - cb.last_failure_time) > timeout
         THEN [cb |-> [cb EXCEPT !.state = "HALF_OPEN", !.failures = 0], result |-> TRUE]
         ELSE [cb |-> cb, result |-> FALSE]
    ELSE [cb |-> cb, result |-> TRUE]

\* Variant: after the timeout the request is admitted with the state left OPEN.
is_circuit_breaker_closed_admits(cb, current_time) ==
    IF cb.state = "OPEN"
    THEN IF (current_time - cb.last_failure_time) > timeout
         THEN [cb |-> cb, result |-> TRUE]
         ELSE [cb |-> cb, result |-> FALSE]
    ELSE [cb |-> cb, result |-> TRUE]

\* Variant: after the timeout the breaker closes without a probe.
is_circuit_breaker_closed_resets(cb, current_time) ==
    IF cb.state = "OPEN"
    THEN IF (current_time - cb.last_failure_time) > timeout
         THEN [cb |-> [cb EXCEPT !.state = "CLOSED"], result |-> TRUE]
         ELSE [cb |-> cb, result |-> FALSE]
    ELSE [cb |-> cb, result |-> TRUE]

\* is_circuit_breaker_closed(): the breaker after the call and the value returned.
is_circuit_breaker_closed(cb, current_time) ==
    IF cb.state = "OPEN"
    THEN IF (current_time - cb.last_failure_time) > timeout
         THEN [cb |-> [cb EXCEPT !.state = "HALF_OPEN"], result |-> TRUE]
         ELSE [cb |-> cb, result |-> FALSE]
    ELSE [cb |-> cb, result |-> TRUE]

\* Variant: the threshold test is > instead of >=.
record_circuit_breaker_failure_gt(cb, current_time) ==
    LET counted == [cb EXCEPT !.failures = @ + 1,
                              !.last_failure_time = current_time]
    IN  IF counted.failures > failure_threshold
        THEN [counted EXCEPT !.state = "OPEN"]
        ELSE counted

\* Variant: only a CLOSED breaker is opened.
record_circuit_breaker_failure_closed_only(cb, current_time) ==
    LET counted == [cb EXCEPT !.failures = @ + 1,
                              !.last_failure_time = current_time]
    IN  IF cb.state = "CLOSED" /\ counted.failures >= failure_threshold
        THEN [counted EXCEPT !.state = "OPEN"]
        ELSE counted

\* record_circuit_breaker_failure()
record_circuit_breaker_failure(cb, current_time) ==
    LET counted == [cb EXCEPT !.failures = @ + 1,
                              !.last_failure_time = current_time]
    IN  IF counted.failures >= failure_threshold
        THEN [counted EXCEPT !.state = "OPEN"]
        ELSE counted

\* Variant: the HALF_OPEN -> CLOSED transition keeps the counter.
record_circuit_breaker_success_keeps(cb) ==
    IF cb.state = "HALF_OPEN"
    THEN [cb EXCEPT !.state = "CLOSED"]
    ELSE cb

\* Variant: every success clears the counter, in any state.
record_circuit_breaker_success_clears(cb) ==
    IF cb.state = "HALF_OPEN"
    THEN [cb EXCEPT !.state = "CLOSED", !.failures = 0]
    ELSE [cb EXCEPT !.failures = 0]

\* Variant: a success outside HALF_OPEN takes one off the counter.
record_circuit_breaker_success_decays(cb) ==
    IF cb.state = "HALF_OPEN"
    THEN [cb EXCEPT !.state = "CLOSED", !.failures = 0]
    ELSE IF cb.failures > 0 THEN [cb EXCEPT !.failures = @ - 1]
    ELSE cb

\* record_circuit_breaker_success()
record_circuit_breaker_success(cb) ==
    IF cb.state = "HALF_OPEN"
    THEN [cb EXCEPT !.state = "CLOSED", !.failures = 0]
    ELSE cb

----------------------------------------------------------------------------
(* Initial state: the module has just been imported. *)

no_response ==
    [statusCode |-> 0, error |-> "-", cb_echo |-> "-", retry_after |-> 0,
     store_calls |-> 0, queue_calls |-> 0, sink_calls |-> 0,
     stored |-> FALSE, queued |-> FALSE, store_raised |-> FALSE]

idle_req ==
    [pc |-> "idle", httpMethod |-> "-", admitted_in |-> "-"]

no_request ==
    [httpMethod |-> "-", path |-> "-", admitted_in |-> "-", recorded |-> "-",
     state_at_record |-> "-", cors_headers |-> FALSE, response |-> no_response]

no_post_call ==
    [called |-> FALSE,
     body |-> [json |-> "invalid", fields |-> {}, value_ok |-> TRUE],
     env |-> [table_name |-> FALSE, queue_url |-> FALSE, store_raises |-> FALSE,
              queue_raises |-> FALSE, sink_raises |-> FALSE],
     response |-> no_response, in_queue |-> 0, records |-> 0]

\* The resilient-api module's breaker as the module creates it.
r_circuit_breaker_init ==
    [failure_count |-> 0, last_failure_time |-> 0, state |-> "CLOSED"]

\* What a resilient-api function hands back: a response (statusCode set,
\* raised "-") or an exception (statusCode 0, raised the exception class),
\* with the calls it made to the store and the queue and the backoff sleeps
\* it took.
r_no_result ==
    [statusCode |-> 0, raised |-> "-", error |-> "-", status |-> "-",
     cb_echo |-> "-", retry_after |-> 0, store_calls |-> 0, store_ok |-> 0,
     queue_calls |-> 0, queue_ok |-> 0, sleeps |-> 0]

r_no_call ==
    [called |-> FALSE, httpMethod |-> "-", path |-> "-", body |-> "-",
     plan |-> [store |-> <<"ok", "ok", "ok">>, queue |-> "ok"],
     cb_before |-> r_circuit_breaker_init, recorded |-> "-",
     response |-> r_no_result]

\* An execution context of the resilient-api handler with no invocation.
r_idle_req == [pc |-> "idle", httpMethod |-> "-", path |-> "-"]

\* No health-monitor invocation has run.
no_monitor == [called |-> FALSE]

\* send_cloudwatch_metrics has not been called.
no_sink_call == [called |-> FALSE, health_results |-> <<>>, calls |-> <<>>]

\* The threads of one process that call record_circuit_breaker_failure.
Threads == {"t1", "t2"}

idle_thr == [pc |-> "idle", failures |-> 0]

Init ==
    /\ circuit_breaker = circuit_breaker_init
    /\ now = 0
    /\ ret = [op |-> "none", result |-> TRUE]
    /\ fail_run = 0
    /\ other_called = FALSE
    /\ fails_since_reset = 0
    /\ req = [p \in Procs |-> idle_req]
    /\ last = no_request
    /\ store_fail_run = 0
    /\ post_call = no_post_call
    /\ r_circuit_breaker = r_circuit_breaker_init
    /\ r_last = r_no_call
    /\ r_req = [p \in Procs |-> r_idle_req]
    /\ monitor = no_monitor
    /\ sink = no_sink_call
    /\ thr = [t \in Threads |-> idle_thr]
    /\ calls_done = 0

Tick ==
    /\ \E d \in TickSteps :
          /\ now + d <= MaxTime
          /\ now' = now + d
    /\ UNCHANGED <<circuit_breaker, breakerGhosts, handlerVars, otherVars>>

----------------------------------------------------------------------------
(* SpecBreaker: direct calls of the three breaker functions. *)

CallIsClosed ==
    LET r == is_circuit_breaker_closed(circuit_breaker, now)
    IN  /\ circuit_breaker' = r.cb
        /\ ret' = [op |-> "is_circuit_breaker_closed", result |-> r.result]
        /\ other_called' = TRUE
        /\ UNCHANGED <<now, fail_run, fails_since_reset, handlerVars, otherVars>>

CallRecordFailure ==
    /\ circuit_breaker.failures < MaxFailures
    /\ circuit_breaker' = record_circuit_breaker_failure(circuit_breaker, now)
    /\ ret' = [op |-> "record_circuit_breaker_failure", result |-> TRUE]
    /\ fail_run' = fail_run + 1
    /\ fails_since_reset' = fails_since_reset + 1
    /\ UNCHANGED <<now, other_called, handlerVars, otherVars>>

CallRecordSuccess ==
    /\ circuit_breaker' = record_circuit_breaker_success(circuit_breaker)
    /\ ret' = [op |-> "record_circuit_breaker_success", result |-> TRUE]
    /\ fail_run' = 0
    /\ fails_since_reset' =
          IF circuit_breaker.state = "HALF_OPEN" THEN 0 ELSE fails_since_reset
    /\ other_called' = TRUE
    /\ UNCHANGED <<now, handlerVars, otherVars>>

NextBreaker ==
    \/ Tick
    \/ CallIsClosed
    \/ CallRecordFailure
    \/ CallRecordSuccess

SpecBreaker == Init /\ [][NextBreaker]_vars

----------------------------------------------------------------------------
(* The route handlers.  Each is a function of the event and of what the    *)
(* collaborators (environment, store, queue, metrics sink) do during the   *)
(* call; it yields the response together with the calls it made.           *)

\* MISSING: the event has no 'httpMethod' key.
Methods == {"OPTIONS", "GET", "POST", "PUT", "MISSING"}

\* NULL: event['path'] is None.
Paths == {"/health", "/metrics", "/unknown", "NULL"}

Events == [httpMethod : Methods, path : Paths]

\* Variant: the fields are validated in another order.
required_fields_reordered == <<"metric_type", "service_name", "value">>

required_fields == <<"service_name", "metric_type", "value">>

\* What the collaborators do during one invocation.
Envs ==
    [table_name : BOOLEAN,      \* TABLE_NAME configured
     queue_url : BOOLEAN,       \* PROCESSING_QUEUE_URL configured
     store_raises : BOOLEAN,    \* put_item / scan / query raises
     queue_raises : BOOLEAN,    \* send_message / get_queue_attributes raises
     sink_raises : BOOLEAN]     \* put_metric_data raises

\* The body of a POST: unparsable, JSON null (json.loads raises TypeError),
\* or an object with some of the required fields and a value that Decimal
\* accepts or not.
Bodies ==
    [json : {"object"}, fields : SUBSET {"service_name", "metric_type", "value"},
     value_ok : BOOLEAN]
    \cup [json : {"invalid", "null"}, fields : {{}}, value_ok : {TRUE}]

\* The first required field that the body lacks, "-" if none.
RECURSIVE first_missing(_, _)
first_missing(fields, i) ==
    IF i > Len(required_fields) THEN "-"
    ELSE IF required_fields[i] \notin fields THEN required_fields[i]
    ELSE first_missing(fields, i + 1)

respond(code, err) ==
    [no_response EXCEPT !.statusCode = code, !.error = err]

handle_post_metrics(body, env) ==
    IF ~env.table_name THEN respond(500, "TABLE_NAME not configured")
    ELSE IF body.json = "invalid" THEN respond(400, "Invalid JSON in request body")
    ELSE IF body.json = "null" THEN respond(500, "exception")
    ELSE IF first_missing(body.fields, 1) # "-"
         THEN respond(400, first_missing(body.fields, 1))
    ELSE IF ~body.value_ok THEN respond(500, "exception")
    ELSE IF env.store_raises
         THEN [respond(500, "exception") EXCEPT !.store_calls = 1, !.store_raised = TRUE]
    ELSE IF env.queue_url /\ env.queue_raises
         THEN [respond(500, "exception") EXCEPT !.store_calls = 1, !.stored = TRUE,
                                               !.queue_calls = 1]
    ELSE IF env.sink_raises
         THEN [respond(500, "exception") EXCEPT !.store_calls = 1, !.stored = TRUE,
                  !.queue_calls = IF env.queue_url THEN 1 ELSE 0,
                  !.queued = env.queue_url, !.sink_calls = 1]
    ELSE [respond(201, "-") EXCEPT !.store_calls = 1, !.stored = TRUE,
                  !.queue_calls = IF env.queue_url THEN 1 ELSE 0,
                  !.queued = env.queue_url, !.sink_calls = 1]

handle_get_metrics(env) ==
    IF ~env.table_name THEN respond(500, "TABLE_NAME not configured")
    ELSE IF env.store_raises
         THEN [respond(500, "exception") EXCEPT !.store_calls = 1, !.store_raised = TRUE]
    ELSE [respond(200, "-") EXCEPT !.store_calls = 1]

handle_health_check(env, cb_state) ==
    LET dynamodb == IF ~env.table_name THEN "unknown"
                    ELSE IF env.store_raises THEN "unhealthy" ELSE "healthy"
        sqs == IF ~env.queue_url THEN "unknown"
               ELSE IF env.queue_raises THEN "unhealthy" ELSE "healthy"
        degraded == dynamodb = "unhealthy" \/ sqs = "unhealthy"
    IN  [respond(IF degraded THEN 503 ELSE 200, IF degraded THEN "degraded" ELSE "healthy")
            EXCEPT !.cb_echo = cb_state,
                   !.store_calls = IF env.table_name THEN 1 ELSE 0,
                   !.store_raised = env.table_name /\ env.store_raises,
                   !.queue_calls = IF env.queue_url THEN 1 ELSE 0]

\* The responses each route handler can give, over all bodies and all
\* behaviours of the collaborators.
States == {"CLOSED", "OPEN", "HALF_OPEN"}

post_metrics_responses ==
    {handle_post_metrics(body, env) : body \in Bodies, env \in Envs}

get_metrics_responses ==
    {handle_get_metrics(env) : env \in Envs}

health_check_responses ==
    [st \in States |-> {handle_health_check(env, st) : env \in Envs}]

\* Lines 54-74 of lambda_handler, for an event whose path is a string: the
\* responses the selected route handler can give.
route(ev, cb) ==
    IF ev.path = "/health" THEN health_check_responses[cb.state]
    ELSE IF ev.path = "/metrics"
         THEN IF ev.httpMethod = "GET" THEN get_metrics_responses
              ELSE IF ev.httpMethod = "POST" THEN post_metrics_responses
              ELSE {respond(405, "Method not allowed")}
    ELSE {respond(404, "Endpoint not found")}

----------------------------------------------------------------------------
(* lambda_handler.  An invocation takes two steps, between which other     *)
(* invocations may run: the admission step (lines 34-52; it completes the  *)
(* invocation when the request is a preflight, is rejected, or has no      *)
(* method) and the handling step (lines 54-97: routing, the route handler, *)
(* the recorded outcome and the response).  The path of the event is read  *)
(* by the handling step, so it is drawn there.                             *)

bump_store_fail_run(resp) ==
    IF resp.store_raised /\ resp.statusCode = 500
    THEN IF store_fail_run < MaxStoreFailRun THEN store_fail_run + 1 ELSE store_fail_run
    ELSE 0

\* Variant: the response leaves lambda_handler without the CORS headers.
completed_no_headers(ev, admitted_in, recorded, state_at_record, resp) ==
    [httpMethod |-> ev.httpMethod, path |-> ev.path, admitted_in |-> admitted_in,
     recorded |-> recorded, state_at_record |-> state_at_record,
     cors_headers |-> FALSE, response |-> resp]

\* A finished invocation.  Every response lambda_handler returns carries
\* cors_headers (lines 39, 47, 80 and 91).
completed(ev, admitted_in, recorded, state_at_record, resp) ==
    [httpMethod |-> ev.httpMethod, path |-> ev.path, admitted_in |-> admitted_in,
     recorded |-> recorded, state_at_record |-> state_at_record,
     cors_headers |-> TRUE, response |-> resp]

\* Lines 34-52, and lines 83-97 when event['httpMethod'] raises KeyError.
Receive(p, ev) ==
    /\ req[p].pc = "idle"
    /\ LET r == is_circuit_breaker_closed(circuit_breaker, now)
       IN  IF ev.httpMethod = "MISSING"
           THEN /\ circuit_breaker.failures < MaxFailures
                /\ circuit_breaker' = record_circuit_breaker_failure(circuit_breaker, now)
                /\ last' = completed(ev, "-", "failure", circuit_breaker.state,
                                     respond(500, "Internal server error"))
                /\ store_fail_run' = 0
                /\ UNCHANGED req
           ELSE IF ev.httpMethod = "OPTIONS"
           THEN /\ last' = completed(ev, "-", "-", "-", respond(200, "CORS preflight"))
                /\ store_fail_run' = 0
                /\ UNCHANGED <<circuit_breaker, req>>
           ELSE IF ~r.result
           THEN /\ circuit_breaker' = r.cb
                /\ last' = completed(ev, "-", "-", "-",
                                     [respond(503, "Service temporarily unavailable")
                                         EXCEPT !.cb_echo = r.cb.state])
                /\ store_fail_run' = 0
                /\ UNCHANGED req
           ELSE /\ circuit_breaker' = r.cb
                /\ req' = [req EXCEPT ![p] = [pc |-> "admitted",
                                              httpMethod |-> ev.httpMethod,
                                              admitted_in |-> r.cb.state]]
                /\ UNCHANGED <<last, store_fail_run>>
    /\ UNCHANGED <<now, breakerGhosts, otherVars>>

\* Lines 54-81: the route handler returns; the success is recorded.
HandleReturn(p, path) ==
    /\ req[p].pc = "admitted"
    /\ path # "NULL"
    /\ LET ev == [httpMethod |-> req[p].httpMethod, path |-> path]
       IN  \E resp \in route(ev, circuit_breaker) :
              /\ circuit_breaker' = record_circuit_breaker_success(circuit_breaker)
              /\ last' = completed(ev, req[p].admitted_in, "success",
                                   circuit_breaker.state, resp)
              /\ store_fail_run' = bump_store_fail_run(resp)
    /\ req' = [req EXCEPT ![p] = idle_req]
    /\ UNCHANGED <<now, breakerGhosts, otherVars>>

\* Lines 54-58 and 83-97: path.startswith raises on a path of None; the
\* failure is recorded.
HandleRaise(p, path) ==
    /\ req[p].pc = "admitted"
    /\ path = "NULL"
    /\ circuit_breaker.failures < MaxFailures
    /\ circuit_breaker' = record_circuit_breaker_failure(circuit_breaker, now)
    /\ last' = completed([httpMethod |-> req[p].httpMethod, path |-> path],
                         req[p].admitted_in, "failure", circuit_breaker.state,
                         respond(500, "Internal server error"))
    /\ store_fail_run' = 0
    /\ req' = [req EXCEPT ![p] = idle_req]
    /\ UNCHANGED <<now, breakerGhosts, otherVars>>

\* Requests handled concurrently by the execution contexts of one process.
Next ==
    \/ Tick
    \/ \E p \in Procs, ev \in Events : Receive(p, ev)
    \/ \E p \in Procs, path \in Paths : HandleReturn(p, path)
    \/ \E p \in Procs, path \in Paths : HandleRaise(p, path)

Spec == Init /\ [][Next]_vars

\* Requests handled one at a time (one invocation per runtime instance).
SeqProc == CHOOSE p \in Procs : TRUE

NextSeq ==
    \/ Tick
    \/ \E ev \in Events : Receive(SeqProc, ev)
    \/ \E path \in Paths : HandleReturn(SeqProc, path)
    \/ \E path \in Paths : HandleRaise(SeqProc, path)

SpecSeq == Init /\ [][NextSeq]_vars

----------------------------------------------------------------------------
(* SpecLive: requests handled one at a time, under the assumptions of      *)
(* automatic recovery: the clock keeps advancing, requests keep arriving   *)
(* and complete, and once the breaker has left CLOSED no failure is        *)
(* recorded.  Failures are recorded early enough for the timeout to elapse *)
(* before MaxTime.                                                         *)

LiveSteps == {MaxTime - timeout, timeout}

LiveTick ==
    /\ \E d \in LiveSteps :
          /\ now + d <= MaxTime
          /\ now' = now + d
    /\ UNCHANGED <<circuit_breaker, breakerGhosts, handlerVars, otherVars>>

FailureAllowed ==
    /\ circuit_breaker.state = "CLOSED"
    /\ now + timeout < MaxTime

\* A request that reaches the admission check.
LiveArrival ==
    \E ev \in Events :
        /\ ev.httpMethod \in {"GET", "POST", "PUT"}
        /\ Receive(SeqProc, ev)

LiveReturn ==
    \E path \in Paths : HandleReturn(SeqProc, path)

NextLive ==
    \/ LiveTick
    \/ \E ev \in Events :
          /\ ev.httpMethod = "MISSING" => FailureAllowed
          /\ Receive(SeqProc, ev)
    \/ LiveReturn
    \/ \E path \in Paths : FailureAllowed /\ HandleRaise(SeqProc, path)

SpecLive ==
    /\ Init
    /\ [][NextLive]_vars
    /\ WF_vars(LiveTick)
    /\ WF_vars(LiveArrival)
    /\ WF_vars(LiveReturn)

----------------------------------------------------------------------------
(* SpecPost: POST /metrics invocations of lambda_handler handled one at a   *)
(* time, each run to completion in one step and recorded with the body and  *)
(* the behaviour of the collaborators it met; the messages it leaves on the *)
(* processing queue are consumed by the log processor                       *)
(* (src/lambda/log-processor/lambda_function.py).  The invocations fall     *)
(* within one timeout window: the clock does not advance.                   *)

\* lambda_handler for an event with httpMethod POST and path /metrics.
PostMetrics(body, env) ==
    /\ LET r == is_circuit_breaker_closed(circuit_breaker, now)
       IN  IF ~r.result
           THEN /\ circuit_breaker' = r.cb
                /\ post_call' =
                      [called |-> TRUE, body |-> body, env |-> env,
                       response |-> [respond(503, "Service temporarily unavailable")
                                        EXCEPT !.cb_echo = r.cb.state],
                       in_queue |-> 0, records |-> 0]
           ELSE LET resp == handle_post_metrics(body, env)
                IN  /\ circuit_breaker' = record_circuit_breaker_success(r.cb)
                    /\ post_call' =
                          [called |-> TRUE, body |-> body, env |-> env,
                           response |-> resp,
                           in_queue |-> IF resp.queued THEN 1 ELSE 0,
                           records |-> IF resp.stored THEN 1 ELSE 0]
    /\ UNCHANGED <<now, breakerGhosts, handlerVars, resilientVars, monitorVars, raceVars>>

\* lambda_handler for an event without the 'httpMethod' key (lines 34 and
\* 83-97): the KeyError is recorded as a failure.
PostKeyError ==
    /\ circuit_breaker.failures < MaxFailures
    /\ circuit_breaker' = record_circuit_breaker_failure(circuit_breaker, now)
    /\ UNCHANGED <<now, breakerGhosts, handlerVars, postVars, resilientVars, monitorVars, raceVars>>

\* The log processor's lambda_handler for one SQS record carrying the body
\* of the recorded POST: process_metric_data puts it into the table.  The
\* handler returns in every case (lines 18-22, 75-81, 83-105), so the
\* message leaves the queue.
ProcessQueueRecord(table_name, put_raises) ==
    /\ post_call.in_queue > 0
    /\ post_call' =
          [post_call EXCEPT !.in_queue = @ - 1,
                            !.records = IF table_name /\ ~put_raises THEN @ + 1 ELSE @]
    /\ UNCHANGED <<circuit_breaker, now, breakerGhosts, handlerVars, resilientVars, monitorVars, raceVars>>

NextPost ==
    \/ \E body \in Bodies, env \in Envs : PostMetrics(body, env)
    \/ PostKeyError
    \/ \E table_name \in BOOLEAN, put_raises \in BOOLEAN :
          ProcessQueueRecord(table_name, put_raises)

SpecPost == Init /\ [][NextPost]_vars

----------------------------------------------------------------------------
(* The resilient-api handler (src/lambda/resilient-api/lambda_function.py):  *)
(* its own module-level breaker, the read path with retries, the write path  *)
(* with the queue fallback, and the health check.                            *)

FAILURE_THRESHOLD == 5
TIMEOUT_DURATION == 60

\* The default of get_metrics_with_retry's max_retries parameter.
max_retries == 3

\* Lines 1-8 import json, boto3, time, datetime, Decimal, logging,
\* ClientError and random.  No statement binds the name os, so each
\* evaluation of os.environ (lines 161, 221, 263, 296, 312) raises NameError.
os_imported == FALSE

\* What one call of a store operation does: it returns, or raises
\* ClientError with the code ProvisionedThroughputExceededException,
\* ClientError with another code, or an exception of another class.
StoreOutcomes == {"ok", "overload", "client_error", "exception"}

\* What the collaborators would do during one invocation: the outcome of the
\* first, second and third call of a store operation (nothing is drawn
\* after a call that returns), and of the call of a queue operation.
Plans ==
    [store : {st \in [1..max_retries -> StoreOutcomes] :
                 \A i \in 1..(max_retries - 1) : st[i] = "ok" => st[i + 1] = "ok"},
     queue : {"ok", "raises"}]

any_plan == [store |-> <<"ok", "ok", "ok">>, queue |-> "ok"]

\* The body of a POST: a JSON object with serviceName, one without, text
\* that is not JSON, or None (json.loads raises TypeError).
RBodies == {"ok", "missing", "invalid", "null"}

\* MISSING: the event has no such key.
RMethods == {"GET", "POST", "DELETE", "MISSING"}
RPaths == {"/metrics", "/health", "/other", "MISSING"}

r_return(code) == [r_no_result EXCEPT !.statusCode = code]
r_raise(class) == [r_no_result EXCEPT !.raised = class]

\* is_circuit_open(): the breaker after the call and the value returned.
is_circuit_open(cb, current_time) ==
    IF cb.state = "OPEN"
    THEN IF current_time - cb.last_failure_time > TIMEOUT_DURATION
         THEN [cb |-> [cb EXCEPT !.state = "HALF_OPEN"], result |-> FALSE]
         ELSE [cb |-> cb, result |-> TRUE]
    ELSE [cb |-> cb, result |-> FALSE]

circuit_breaker_response ==
    [r_return(503) EXCEPT !.error = "Service temporarily unavailable",
                          !.retry_after = 60]

\* record_circuit_breaker_failure() of the resilient-api module.
r_record_circuit_breaker_failure(cb, current_time) ==
    LET counted == [cb EXCEPT !.failure_count = @ + 1,
                              !.last_failure_time = current_time]
    IN  IF counted.failure_count >= FAILURE_THRESHOLD
        THEN [counted EXCEPT !.state = "OPEN"]
        ELSE counted

\* record_circuit_breaker_success() of the resilient-api module.
r_record_circuit_breaker_success(cb) ==
    IF cb.state = "HALF_OPEN"
    THEN [cb EXCEPT !.state = "CLOSED", !.failure_count = 0]
    ELSE IF cb.failure_count > 0
         THEN [cb EXCEPT !.failure_count = IF @ - 1 > 0 THEN @ - 1 ELSE 0]
         ELSE cb

\* The for loop of get_metrics_with_retry (lines 163-203) from the given
\* attempt on, after the given number of backoff sleeps.
RECURSIVE get_metrics_attempts(_, _, _)
get_metrics_attempts(plan, attempt, sleeps) ==
    IF attempt >= max_retries
    THEN [r_raise("Exception") EXCEPT !.store_calls = attempt, !.sleeps = sleeps]
    ELSE LET outcome == plan.store[attempt + 1]
             raised(class) == [r_raise(class) EXCEPT !.store_calls = attempt + 1,
                                                     !.sleeps = sleeps]
         IN  IF outcome = "ok"
             THEN [r_return(200) EXCEPT !.store_calls = attempt + 1,
                                        !.store_ok = 1, !.sleeps = sleeps]
             ELSE IF outcome = "overload"
             THEN IF attempt < max_retries - 1
                  THEN get_metrics_attempts(plan, attempt + 1, sleeps + 1)
                  ELSE raised("ClientError")
             ELSE IF outcome = "client_error"
             THEN raised("ClientError")
             ELSE IF attempt < max_retries - 1
                  THEN get_metrics_attempts(plan, attempt + 1, sleeps + 1)
                  ELSE raised("Exception")

\* get_metrics_with_retry(event, context): line 161 evaluates os.environ
\* before the loop and outside any try.
get_metrics_with_retry(plan) ==
    IF ~os_imported THEN r_raise("NameError")
    ELSE get_metrics_attempts(plan, 0, 0)

\* queue_metric_for_processing(metric_data), reached after one failed put:
\* line 263 evaluates os.environ inside the try, whose handler re-raises.
queue_metric_for_processing(plan) ==
    IF ~os_imported THEN [r_raise("NameError") EXCEPT !.store_calls = 1]
    ELSE IF plan.queue = "raises"
         THEN [r_raise("Exception") EXCEPT !.store_calls = 1, !.queue_calls = 1]
    ELSE [r_return(202) EXCEPT !.store_calls = 1, !.queue_calls = 1, !.queue_ok = 1]

\* create_metric_with_queue(event, context): line 221 evaluates os.environ
\* inside the inner try, which handles ClientError only.
create_metric_with_queue(body, plan) ==
    IF body = "invalid"
    THEN [r_return(400) EXCEPT !.error = "Invalid JSON in request body"]
    ELSE IF body = "null" THEN r_raise("TypeError")
    ELSE IF body = "missing"
    THEN [r_return(400) EXCEPT !.error = "Missing required field: serviceName"]
    ELSE IF ~os_imported THEN r_raise("NameError")
    ELSE IF plan.store[1] = "ok"
    THEN [r_return(201) EXCEPT !.store_calls = 1, !.store_ok = 1]
    ELSE IF plan.store[1] = "overload" THEN queue_metric_for_processing(plan)
    ELSE IF plan.store[1] = "client_error"
    THEN [r_raise("ClientError") EXCEPT !.store_calls = 1]
    ELSE [r_raise("Exception") EXCEPT !.store_calls = 1]

\* comprehensive_health_check(): each probe evaluates os.environ inside its
\* try (lines 296, 312), whose handler marks the dependency unhealthy.
comprehensive_health_check(plan, cb) ==
    LET database == IF ~os_imported THEN "unhealthy"
                    ELSE IF plan.store[1] = "ok" THEN "healthy" ELSE "unhealthy"
        queue == IF ~os_imported THEN "unhealthy"
                 ELSE IF plan.queue = "ok" THEN "healthy" ELSE "unhealthy"
        overall_healthy ==
            database = "healthy" /\ queue = "healthy" /\ cb.state # "OPEN"
    IN  [r_return(IF overall_healthy THEN 200 ELSE 503)
            EXCEPT !.status = IF overall_healthy THEN "healthy" ELSE "degraded",
                   !.cb_echo = cb.state,
                   !.store_calls = IF os_imported THEN 1 ELSE 0,
                   !.store_ok = IF database = "healthy" THEN 1 ELSE 0,
                   !.queue_calls = IF os_imported THEN 1 ELSE 0,
                   !.queue_ok = IF queue = "healthy" THEN 1 ELSE 0]

\* Lines 56-70 of lambda_handler: what the routed function hands back.
r_route(httpMethod, path, body, plan, cb) ==
    IF httpMethod = "MISSING" \/ path = "MISSING" THEN r_raise("KeyError")
    ELSE IF httpMethod = "GET" /\ path = "/metrics" THEN get_metrics_with_retry(plan)
    ELSE IF httpMethod = "POST" /\ path = "/metrics"
         THEN create_metric_with_queue(body, plan)
    ELSE IF httpMethod = "GET" /\ path = "/health"
         THEN comprehensive_health_check(plan, cb)
    ELSE [r_return(404) EXCEPT !.error = "Not found"]

\* The requests drawn: a body only for POST /metrics, and a plan only for
\* the routes that would call a collaborator.
RRequests ==
    {rq \in [httpMethod : RMethods, path : RPaths, body : RBodies \cup {"-"},
             plan : Plans] :
        /\ rq.body # "-" <=> (rq.httpMethod = "POST" /\ rq.path = "/metrics")
        /\ rq.plan # any_plan =>
              \/ rq.path = "/metrics" /\ rq.httpMethod = "GET"
              \/ rq.path = "/metrics" /\ rq.httpMethod = "POST" /\ rq.body = "ok"
              \/ rq.path = "/health" /\ rq.httpMethod = "GET"}

\* lambda_handler(event, context), one invocation run to completion.
RInvoke(rq) ==
    /\ LET o == is_circuit_open(r_circuit_breaker, now)
           result == r_route(rq.httpMethod, rq.path, rq.body, rq.plan, o.cb)
           call(recorded, resp) ==
               [called |-> TRUE, httpMethod |-> rq.httpMethod, path |-> rq.path,
                body |-> rq.body, plan |-> rq.plan,
                cb_before |-> r_circuit_breaker, recorded |-> recorded,
                response |-> resp]
       IN  IF o.result
           THEN /\ r_circuit_breaker' = o.cb
                /\ r_last' = call("-", circuit_breaker_response)
           ELSE IF result.raised # "-"
           THEN /\ r_circuit_breaker' = r_record_circuit_breaker_failure(o.cb, now)
                /\ r_last' = call("failure",
                                  [result EXCEPT !.statusCode = 500,
                                                 !.error = "Internal server error"])
           ELSE /\ r_circuit_breaker' = r_record_circuit_breaker_success(o.cb)
                /\ r_last' = call("success", result)
    /\ UNCHANGED <<r_req, circuit_breaker, now, breakerGhosts, handlerVars, postVars, monitorVars, raceVars>>

\* Requests handled one at a time, with the clock advancing between them.
NextResilient ==
    \/ Tick
    \/ \E rq \in RRequests : RInvoke(rq)

SpecResilient == Init /\ [][NextResilient]_vars

----------------------------------------------------------------------------
(* SpecResilientConc: resilient-api invocations of two execution contexts   *)
(* overlapping.  An invocation takes two steps: the admission check (lines  *)
(* 52-53) and the routed function with the recorded outcome (lines 55-106). *)
(* The requests are GET /metrics, which raises, and GET /other, which is    *)
(* answered 404 and recorded as a success.                                  *)

RConcRequests ==
    {rq \in RRequests :
        /\ rq.httpMethod = "GET"
        /\ rq.path \in {"/metrics", "/other"}
        /\ rq.plan = any_plan}

r_call(rq, recorded, resp) ==
    [called |-> TRUE, httpMethod |-> rq.httpMethod, path |-> rq.path,
     body |-> rq.body, plan |-> rq.plan,
     cb_before |-> r_circuit_breaker, recorded |-> recorded, response |-> resp]

\* Lines 52-53: is_circuit_open(); an open breaker answers 503.
RAdmit(p, rq) ==
    /\ r_req[p].pc = "idle"
    /\ LET o == is_circuit_open(r_circuit_breaker, now)
       IN  /\ r_circuit_breaker' = o.cb
           /\ IF o.result
              THEN /\ r_last' = r_call(rq, "-", circuit_breaker_response)
                   /\ UNCHANGED r_req
              ELSE /\ r_req' = [r_req EXCEPT ![p] = [pc |-> "admitted",
                                                     httpMethod |-> rq.httpMethod,
                                                     path |-> rq.path]]
                   /\ UNCHANGED r_last
    /\ UNCHANGED <<circuit_breaker, now, breakerGhosts, handlerVars, postVars,
                   monitorVars, raceVars>>

\* Lines 55-106: the routed function runs and its outcome is recorded.
RFinish(p) ==
    /\ r_req[p].pc = "admitted"
    /\ LET rq == [httpMethod |-> r_req[p].httpMethod, path |-> r_req[p].path,
                  body |-> "-", plan |-> any_plan]
           result == r_route(rq.httpMethod, rq.path, rq.body, rq.plan, r_circuit_breaker)
       IN  IF result.raised # "-"
           THEN /\ r_circuit_breaker.failure_count < MaxFailures
                /\ r_circuit_breaker' = r_record_circuit_breaker_failure(r_circuit_breaker, now)
                /\ r_last' = r_call(rq, "failure",
                                    [result EXCEPT !.statusCode = 500,
                                                   !.error = "Internal server error"])
           ELSE /\ r_circuit_breaker' = r_record_circuit_breaker_success(r_circuit_breaker)
                /\ r_last' = r_call(rq, "success", result)
    /\ r_req' = [r_req EXCEPT ![p] = r_idle_req]
    /\ UNCHANGED <<circuit_breaker, now, breakerGhosts, handlerVars, postVars,
                   monitorVars, raceVars>>

NextResilientConc ==
    \/ Tick
    \/ \E p \in Procs, rq \in RConcRequests : RAdmit(p, rq)
    \/ \E p \in Procs : RFinish(p)

SpecResilientConc == Init /\ [][NextResilientConc]_vars

----------------------------------------------------------------------------
(* SpecHealth: the two handlers side by side, each handling its requests   *)
(* one at a time: /health requests, and requests that fail (an event       *)
(* without httpMethod, a path of None, GET /metrics of the resilient-api   *)
(* handler) so that the breakers open.                                     *)

HealthEvents == [httpMethod : {"GET", "MISSING"}, path : {"/health"}]

HealthPaths == {"/health", "NULL"}

RHealthRequests ==
    {rq \in RRequests :
        /\ rq.httpMethod = "GET"
        /\ rq.path \in {"/health", "/metrics"}
        /\ rq.path = "/metrics" => rq.plan = any_plan
        /\ rq.plan.store[1] \in {"ok", "exception"}
        /\ rq.plan.store[2] = "ok" /\ rq.plan.store[3] = "ok"}

NextHealth ==
    \/ Tick
    \/ \E ev \in HealthEvents : Receive(SeqProc, ev)
    \/ \E path \in HealthPaths : HandleReturn(SeqProc, path)
    \/ \E path \in HealthPaths : HandleRaise(SeqProc, path)
    \/ \E rq \in RHealthRequests : RInvoke(rq)

SpecHealth == Init /\ [][NextHealth]_vars

----------------------------------------------------------------------------
(* The health monitor                                                       *)
(* (infrastructure/outputs.json/asset.cd06.../lambda_function.py): the      *)
(* scheduled lambda_handler, its two probes, the SLO calculation and the    *)
(* error-budget check.  The module keeps no state between invocations; the  *)
(* samples in the table reach an invocation as the result of its scan.      *)
(* Numbers the code holds as floats are exact rationals here.               *)

MaxSmallWindow == 6
MaxFailedSamples == 8

RECURSIVE Gcd(_, _)
Gcd(a, b) == IF b = 0 THEN a ELSE Gcd(b, a % b)

Abs(x) == IF x < 0 THEN -x ELSE x

\* The rational n/d in lowest terms (d > 0).
Rat(n, d) ==
    LET g == Gcd(Abs(n), d)
    IN  [n |-> n \div g, d |-> d \div g]

RatSub(a, b) == Rat(a.n * b.d - b.n * a.d, a.d * b.d)

RatMul(a, b) == Rat(a.n * b.n, a.d * b.d)

RatLess(a, b) == a.n * b.d < b.n * a.d
RatEq(a, b) == a.n * b.d = b.n * a.d
RatMax(a, b) == IF RatLess(a, b) THEN b ELSE a

\* Variant: a 99% target.
target_availability_99 == Rat(99, 1)

target_availability == Rat(999, 10)

\* What http.request does: it raises (timeout, connection error), or
\* returns a response with a status.
HttpOutcomes ==
    {[raised |-> TRUE, status |-> None]}
        \cup [raised : {FALSE}, status : {200, 204, 404, 503}]

\* The Items of the scan over the window, by the sign of their Value, or a
\* scan that raises.  Small windows of every composition, and large ones
\* with few unhealthy samples.
Windows ==
    {[scan_ok |-> FALSE, healthy |-> 0, unhealthy |-> 0]}
        \cup {w \in [scan_ok : {TRUE}, healthy : 0..MaxSmallWindow,
                     unhealthy : 0..MaxSmallWindow] :
                 w.healthy + w.unhealthy <= MaxSmallWindow}
        \cup {[scan_ok |-> TRUE, healthy |-> total - u, unhealthy |-> u] :
                 total \in {100, 1000, 2000, 4000, 10000},
                 u \in 0..MaxFailedSamples}

\* One invocation's environment: the configuration, and what the
\* collaborators do.  puts_accepted is the number of put_item calls of the
\* try block that return before one raises (3: all return).
MonitorInputs ==
    {inp \in [table_name : BOOLEAN, api_url : BOOLEAN, http : HttpOutcomes,
              puts_accepted : 0..3, error_put_ok : BOOLEAN,
              probe_scan_ok : BOOLEAN, window : Windows, sink_ok : BOOLEAN] :
        ~inp.api_url => inp.http = [raised |-> FALSE, status |-> 200]}

\* Variant: every 2xx status counts as healthy.
test_api_health_2xx(api_url, http) ==
    IF ~api_url
    THEN [healthy |-> FALSE, status_code |-> None, error |-> "API_URL not configured"]
    ELSE IF http.raised
    THEN [healthy |-> FALSE, status_code |-> None, error |-> "exception"]
    ELSE [healthy |-> http.status < 300, status_code |-> http.status,
          error |-> IF http.status >= 300 THEN "Non-200 status code" ELSE "None"]

\* test_api_health(api_url)
test_api_health(api_url, http) ==
    IF ~api_url
    THEN [healthy |-> FALSE, status_code |-> None, error |-> "API_URL not configured"]
    ELSE IF http.raised
    THEN [healthy |-> FALSE, status_code |-> None, error |-> "exception"]
    ELSE [healthy |-> http.status = 200, status_code |-> http.status,
          error |-> IF http.status # 200 THEN "Non-200 status code" ELSE "None"]

\* test_dynamodb_health(table)
test_dynamodb_health(probe_scan_ok) ==
    [healthy |-> probe_scan_ok,
     error |-> IF probe_scan_ok THEN "None" ELSE "exception"]

\* Variant: an empty window counts as fully available.
slo_metrics_init_full ==
    [availability_percentage |-> Rat(100, 1), error_budget_remaining |-> Rat(1, 10),
     total_checks |-> 0, successful_checks |-> 0, failed_checks |-> 0,
     error |-> FALSE]

\* The snapshot calculate_slo_metrics starts from (lines 202-211).
slo_metrics_init ==
    [availability_percentage |-> Rat(0, 1), error_budget_remaining |-> Rat(0, 1),
     total_checks |-> 0, successful_checks |-> 0, failed_checks |-> 0,
     error |-> FALSE]

\* calculate_slo_metrics(table, environment)
calculate_slo_metrics(window) ==
    IF ~window.scan_ok THEN [slo_metrics_init EXCEPT !.error = TRUE]
    ELSE LET total_checks == window.healthy + window.unhealthy
             successful_checks == window.healthy
         IN  IF total_checks > 0
             THEN LET availability_percentage ==
                          RatMul(Rat(successful_checks, total_checks), Rat(100, 1))
                      error_budget_used == RatSub(Rat(100, 1), availability_percentage)
                      target_error_budget == RatSub(Rat(100, 1), target_availability)
                      error_budget_remaining ==
                          RatMax(Rat(0, 1), RatSub(target_error_budget, error_budget_used))
                  IN  [slo_metrics_init EXCEPT
                          !.availability_percentage = availability_percentage,
                          !.error_budget_remaining = error_budget_remaining,
                          !.total_checks = total_checks,
                          !.successful_checks = successful_checks,
                          !.failed_checks = total_checks - successful_checks]
             ELSE slo_metrics_init

\* Variant: the MEDIUM band is closed at 0.075.
check_error_budget_le(slo_metrics) ==
    IF RatLess(slo_metrics.error_budget_remaining, Rat(5, 100)) THEN "HIGH"
    ELSE IF ~RatLess(Rat(75, 1000), slo_metrics.error_budget_remaining) THEN "MEDIUM"
    ELSE "None"

\* Variant: no alert for a snapshot without samples.
check_error_budget_skips_empty(slo_metrics) ==
    IF slo_metrics.total_checks = 0 THEN "None"
    ELSE IF RatLess(slo_metrics.error_budget_remaining, Rat(5, 100)) THEN "HIGH"
    ELSE IF RatLess(slo_metrics.error_budget_remaining, Rat(75, 1000)) THEN "MEDIUM"
    ELSE "None"

\* check_error_budget(slo_metrics): the severity of the alert, or None.
check_error_budget(slo_metrics) ==
    IF RatLess(slo_metrics.error_budget_remaining, Rat(5, 100)) THEN "HIGH"
    ELSE IF RatLess(slo_metrics.error_budget_remaining, Rat(75, 1000)) THEN "MEDIUM"
    ELSE "None"

\* The result of an invocation that has not got to its probes and samples.
monitor_result ==
    [outcome |-> "returned", statusCode |-> 0,
     api_health |-> [healthy |-> FALSE, status_code |-> None, error |-> "-"],
     dynamo_health |-> [healthy |-> FALSE, error |-> "-"],
     api_samples |-> <<>>, dynamodb_samples |-> <<>>,
     slo_computed |-> FALSE, slo_metrics |-> slo_metrics_init,
     slo_sample |-> FALSE, alert |-> "-", error_sample |-> FALSE]

\* Lines 106-129: the except block puts an ERROR item, outside any try.
monitor_except(inp, res) ==
    IF inp.error_put_ok
    THEN [res EXCEPT !.statusCode = 500, !.error_sample = TRUE]
    ELSE [res EXCEPT !.outcome = "raised"]

\* lambda_handler(event, context) of the health monitor.
monitor_handler(inp) ==
    IF ~inp.table_name THEN [monitor_result EXCEPT !.statusCode = 500]
    ELSE
    LET api_health == test_api_health(inp.api_url, inp.http)
        probed1 == [monitor_result EXCEPT !.api_health = api_health]
        stored1 == [probed1 EXCEPT
                       !.api_samples = <<IF api_health.healthy THEN 1 ELSE 0>>]
        dynamo_health == test_dynamodb_health(inp.probe_scan_ok)
        probed2 == [stored1 EXCEPT !.dynamo_health = dynamo_health]
        stored2 == [probed2 EXCEPT
                       !.dynamodb_samples = <<IF dynamo_health.healthy THEN 1 ELSE 0>>]
        slo_metrics == calculate_slo_metrics(inp.window)
        computed == [stored2 EXCEPT !.slo_computed = TRUE, !.slo_metrics = slo_metrics]
        stored3 == [computed EXCEPT !.slo_sample = TRUE]
    IN  IF inp.puts_accepted = 0 THEN monitor_except(inp, probed1)
        ELSE IF inp.puts_accepted = 1 THEN monitor_except(inp, probed2)
        ELSE IF inp.puts_accepted = 2 THEN monitor_except(inp, computed)
        ELSE IF ~inp.sink_ok THEN monitor_except(inp, stored3)
        ELSE [stored3 EXCEPT !.statusCode = 200,
                             !.alert = check_error_budget(slo_metrics)]

\* The invocation of the scheduled function.
MonitorInvoke(inp) ==
    /\ monitor' = [called |-> TRUE, input |-> inp, result |-> monitor_handler(inp)]
    /\ UNCHANGED <<circuit_breaker, now, breakerGhosts, handlerVars, postVars,
                   resilientVars, raceVars, sink>>

\* One invocation, in any environment.
NextMonitor ==
    /\ ~monitor.called
    /\ \E inp \in MonitorInputs : MonitorInvoke(inp)

SpecMonitor == Init /\ [][NextMonitor]_vars

----------------------------------------------------------------------------
(* SpecSink: send_cloudwatch_metrics(health_results, environment) called    *)
(* once with a list of results; each put_metric_data call it makes is       *)
(* recorded with its batch.                                                 *)

MaxResults == 25

\* The entries of one put_metric_data call (line 321).
batch_size == 20

\* The results the function can be handed, by the keys it looks at: a probe
\* result with a response time ('healthy' and 'response_time_ms' set), a
\* probe result without one ('response_time_ms' None), the SLO snapshot
\* ('availability_percentage') and an error-budget alert (none of the keys).
ResultKinds == <<"timed_probe", "untimed_probe", "slo", "alert">>

Patterns == {"timed_probe", "untimed_probe", "slo", "alert", "mixed"}

HealthResults(n, pattern) ==
    [i \in 1..n |-> IF pattern = "mixed" THEN ResultKinds[(i % 4) + 1] ELSE pattern]

\* Lines 281-317: the entries one result contributes, in order; an entry is
\* its MetricName and the position of its result.
entries(kind, i) ==
    IF kind = "timed_probe"
    THEN <<[MetricName |-> "ServiceHealth", result |-> i],
           [MetricName |-> "ResponseTime", result |-> i]>>
    ELSE IF kind = "untimed_probe"
    THEN <<[MetricName |-> "ServiceHealth", result |-> i]>>
    ELSE IF kind = "slo"
    THEN <<[MetricName |-> "AvailabilityPercentage", result |-> i]>>
    ELSE <<>>

RECURSIVE metric_data_from(_, _)
metric_data_from(health_results, i) ==
    IF i > Len(health_results) THEN <<>>
    ELSE entries(health_results[i], i) \o metric_data_from(health_results, i + 1)

metric_data(health_results) == metric_data_from(health_results, 1)

\* Lines 320-326: for i in range(0, len(metric_data), 20), one call with
\* metric_data[i:i+20]; i counts from 0 as in the code.
RECURSIVE batches(_, _)
batches(md, i) ==
    IF i >= Len(md) THEN <<>>
    ELSE LET hi == IF i + batch_size < Len(md) THEN i + batch_size ELSE Len(md)
         IN  <<SubSeq(md, i + 1, hi)>> \o batches(md, i + batch_size)

\* Variant: all entries go out in one call.
send_cloudwatch_metrics_single(health_results) ==
    LET md == metric_data(health_results)
    IN  IF md = <<>> THEN <<>> ELSE <<md>>

send_cloudwatch_metrics(health_results) ==
    LET md == metric_data(health_results)
    IN  IF md = <<>> THEN <<>> ELSE batches(md, 0)

SinkCall(health_results) ==
    /\ sink' = [called |-> TRUE, health_results |-> health_results,
                calls |-> send_cloudwatch_metrics(health_results)]
    /\ UNCHANGED <<circuit_breaker, now, breakerGhosts, handlerVars, postVars,
                   resilientVars, monitor, raceVars>>

NextSink ==
    /\ ~sink.called
    /\ \E n \in 0..MaxResults, pattern \in Patterns : SinkCall(HealthResults(n, pattern))

SpecSink == Init /\ [][NextSink]_vars

----------------------------------------------------------------------------
(* SpecRace: record_circuit_breaker_failure called by the threads of one    *)
(* process.  The function takes no lock, so the statement                   *)
(* circuit_breaker['failures'] += 1 (line 306) is a read of the counter     *)
(* and a later write of the value read plus one, and the threshold test     *)
(* (lines 309-310) reads the counter again; other threads run in between.   *)

\* Line 306, first half: the thread loads circuit_breaker['failures'].
RaceRead(t) ==
    /\ thr[t].pc = "idle"
    /\ calls_done + Cardinality({u \in Threads : thr[u].pc # "idle"}) < MaxFailures
    /\ thr' = [thr EXCEPT ![t] = [pc |-> "read", failures |-> circuit_breaker.failures]]
    /\ UNCHANGED <<circuit_breaker, calls_done, now, breakerGhosts, handlerVars,
                   postVars, resilientVars, monitorVars>>

\* Line 306, second half, and line 307: the thread stores the value it
\* loaded plus one, then the time.
RaceWrite(t) ==
    /\ thr[t].pc = "read"
    /\ circuit_breaker' = [circuit_breaker EXCEPT !.failures = thr[t].failures + 1,
                                                  !.last_failure_time = now]
    /\ thr' = [thr EXCEPT ![t] = [pc |-> "written", failures |-> thr[t].failures]]
    /\ UNCHANGED <<calls_done, now, breakerGhosts, handlerVars,
                   postVars, resilientVars, monitorVars>>

\* Lines 309-311: the threshold test on the counter as it is now; the call
\* returns.
RaceCheck(t) ==
    /\ thr[t].pc = "written"
    /\ circuit_breaker' =
          IF circuit_breaker.failures >= failure_threshold
          THEN [circuit_breaker EXCEPT !.state = "OPEN"]
          ELSE circuit_breaker
    /\ thr' = [thr EXCEPT ![t] = idle_thr]
    /\ calls_done' = calls_done + 1
    /\ UNCHANGED <<now, breakerGhosts, handlerVars,
                   postVars, resilientVars, monitorVars>>

NextRace ==
    \/ Tick
    \/ \E t \in Threads : RaceRead(t)
    \/ \E t \in Threads : RaceWrite(t)
    \/ \E t \in Threads : RaceCheck(t)

SpecRace == Init /\ [][NextRace]_vars

----------------------------------------------------------------------------
(* Properties *)

state == circuit_breaker.state
failures == circuit_breaker.failures
last_failure_time == circuit_breaker.last_failure_time

\* Steps of lambda_handler that record a failure.
RecordsFailure ==
    \/ \E p \in Procs, path \in Paths : HandleRaise(p, path)
    \/ \E p \in Procs, ev \in Events : ev.httpMethod = "MISSING" /\ Receive(p, ev)

\* Steps of lambda_handler that record a success.
RecordsSuccess ==
    \E p \in Procs, path \in Paths : HandleReturn(p, path)

\* C1 (SpecBreaker): after N calls of record_circuit_breaker_failure and no
\* other call, the breaker is CLOSED with failures = N while N < 5, and OPEN
\* with failures = 5 and last_failure_time set when N = 5.
C1_OpensAtFifthFailure ==
    ~other_called =>
        /\ fail_run < failure_threshold =>
              state = "CLOSED" /\ failures = fail_run
        /\ fail_run = failure_threshold =>
              state = "OPEN" /\ failures = failure_threshold /\ last_failure_time # None

C1_Witness ==
    /\ ~other_called
    /\ fail_run = failure_threshold
    /\ ret.op = "record_circuit_breaker_failure"
    /\ state = "OPEN"

\* C2 as stated (SpecBreaker): the breaker goes CLOSED -> OPEN only when the
\* failures recorded since the last recorded success number at least 5.
C2_OpensOnlyOnConsecutiveFailures ==
    [][(state = "CLOSED" /\ circuit_breaker'.state = "OPEN")
          => fail_run' >= failure_threshold]_vars

\* C2 amended (SpecBreaker): the counter is the number of failures recorded
\* since the last HALF_OPEN -> CLOSED reset (a success recorded while CLOSED
\* does not clear it), and the breaker is OPEN only when that number is at
\* least 5.
C2_OpensOnFailuresSinceReset ==
    /\ failures = fails_since_reset
    /\ state = "OPEN" => fails_since_reset >= failure_threshold
    /\ fails_since_reset < failure_threshold <=> state = "CLOSED"

C2_Witness ==
    /\ state = "OPEN"
    /\ ret.op = "record_circuit_breaker_failure"
    /\ fails_since_reset = failure_threshold
    /\ fail_run < failure_threshold

\* C3 (SpecBreaker): an admission check made while the breaker is OPEN and
\* now - last_failure_time <= 60 returns False and leaves the state OPEN.
C3_OpenWithinTimeoutRejects ==
    [][(CallIsClosed /\ state = "OPEN" /\ now - last_failure_time <= timeout)
          => (ret'.result = FALSE /\ circuit_breaker'.state = "OPEN")]_vars

C3_Witness ==
    /\ ret.op = "is_circuit_breaker_closed"
    /\ ret.result = FALSE
    /\ state = "OPEN"
    /\ now - last_failure_time = timeout

\* C4 (SpecBreaker): an admission check made while the breaker is OPEN and
\* now - last_failure_time > 60 returns True and sets the state to HALF_OPEN,
\* with failures and last_failure_time unchanged.
C4_OpenAfterTimeoutHalfOpens ==
    [][(CallIsClosed /\ state = "OPEN" /\ now - last_failure_time > timeout)
          => /\ ret'.result = TRUE
             /\ circuit_breaker'.state = "HALF_OPEN"
             /\ circuit_breaker'.failures = failures
             /\ circuit_breaker'.last_failure_time = last_failure_time]_vars

C4_Witness ==
    /\ ret.op = "is_circuit_breaker_closed"
    /\ ret.result = TRUE
    /\ state = "HALF_OPEN"
    /\ failures >= failure_threshold
    /\ now - last_failure_time = timeout + 1

\* C5 (SpecSeq): a success recorded while the breaker is HALF_OPEN, and the
\* completion without exception of a request admitted in HALF_OPEN, leave the
\* breaker CLOSED with failures = 0.
C5_HalfOpenSuccessCloses ==
    [][((state = "HALF_OPEN" \/ req[SeqProc].admitted_in = "HALF_OPEN") /\ RecordsSuccess)
          => (circuit_breaker'.state = "CLOSED" /\ circuit_breaker'.failures = 0)]_vars

C5_Witness ==
    /\ last.recorded = "success"
    /\ last.admitted_in = "HALF_OPEN"
    /\ last.state_at_record = "HALF_OPEN"
    /\ req[SeqProc].pc = "idle"
    /\ state = "CLOSED"
    /\ failures = 0

\* C6 (Spec): a failure recorded while the breaker is HALF_OPEN leaves it OPEN
\* with last_failure_time equal to the time of the failure.
C6_HalfOpenFailureReopens ==
    [][(state = "HALF_OPEN" /\ RecordsFailure)
          => (circuit_breaker'.state = "OPEN"
              /\ circuit_breaker'.last_failure_time = now)]_vars

C6_Witness ==
    /\ last.recorded = "failure"
    /\ last.state_at_record = "HALF_OPEN"
    /\ state = "OPEN"
    /\ last_failure_time = now
    /\ now > timeout

\* C7 (SpecSeq): once five requests in a row have had their store operation
\* fail, the breaker is OPEN.
C7_FiveStoreFailuresOpen ==
    (store_fail_run >= failure_threshold /\ req[SeqProc].pc = "idle")
        => state = "OPEN"

\* C8 (SpecSeq): after a request admitted in HALF_OPEN whose store operation
\* failed was answered 500, the breaker is OPEN with last_failure_time set.
C8_FailedProbeReopens ==
    (/\ req[SeqProc].pc = "idle"
     /\ last.admitted_in = "HALF_OPEN"
     /\ last.response.store_raised
     /\ last.response.statusCode = 500)
        => (state = "OPEN" /\ last_failure_time # None)

\* C9 (Spec): a request with a method other than OPTIONS received while the
\* breaker is OPEN and the timeout has not elapsed is answered 503 echoing
\* OPEN, with no store, queue or sink call, no recorded outcome and the
\* breaker unchanged, whatever its path and method.
C9_OpenRejectsWithoutEffect ==
    [][\A p \in Procs, ev \in Events :
          (/\ ev.httpMethod \notin {"OPTIONS", "MISSING"}
           /\ state = "OPEN"
           /\ now - last_failure_time <= timeout
           /\ Receive(p, ev))
          => /\ last'.httpMethod = ev.httpMethod /\ last'.path = ev.path
             /\ last'.response.statusCode = 503
             /\ last'.response.cb_echo = "OPEN"
             /\ last'.response.store_calls = 0
             /\ last'.response.queue_calls = 0
             /\ last'.response.sink_calls = 0
             /\ last'.recorded = "-"
             /\ circuit_breaker' = circuit_breaker
             /\ req' = req]_vars

C9_Witness ==
    /\ last.response.statusCode = 503
    /\ last.response.cb_echo = "OPEN"
    /\ last.httpMethod = "POST"
    /\ last.path = "NULL"
    /\ state = "OPEN"
    /\ now - last_failure_time = timeout

\* C10 (Spec): in every state reachable with requests handled concurrently,
\* state = OPEN implies last_failure_time is set and failures >= 5.
C10_OpenImpliesThresholdReached ==
    state = "OPEN" =>
        (last_failure_time # None /\ failures >= failure_threshold)

\* A request admitted before the breaker opened recorded its success after.
C10_Witness ==
    /\ state = "OPEN"
    /\ last.recorded = "success"
    /\ last.admitted_in = "CLOSED"
    /\ last.state_at_record = "OPEN"
    /\ failures >= failure_threshold

\* C11 (SpecBreaker): a success recorded while the breaker is CLOSED leaves
\* the state CLOSED and the failure counter (and last_failure_time) as they
\* were.
C11_ClosedSuccessChangesNothing ==
    [][(state = "CLOSED" /\ CallRecordSuccess)
          => circuit_breaker' = circuit_breaker]_vars

C11_Witness ==
    /\ ret.op = "record_circuit_breaker_success"
    /\ state = "CLOSED"
    /\ failures = 2

\* The answer C12 describes for a body that lacks a required field: 400
\* naming the first missing field, and no call to a collaborator.
C12_Expected(body) ==
    [respond(400, IF "service_name" \notin body.fields THEN "service_name"
                  ELSE IF "metric_type" \notin body.fields THEN "metric_type"
                  ELSE "value")
        EXCEPT !.store_calls = 0, !.queue_calls = 0, !.sink_calls = 0]

\* The recorded POST was admitted and its body is an object that lacks a
\* required field.
C12_LacksField ==
    /\ post_call.called
    /\ post_call.response.statusCode # 503
    /\ post_call.body.json = "object"
    /\ post_call.body.fields # {"service_name", "metric_type", "value"}

\* C12 as stated (SpecPost): an admitted POST /metrics whose body lacks a
\* required field is answered 400 naming the first missing field in the
\* order service_name, metric_type, value, with no store put, no queue send
\* and no sink call.
C12_MissingFieldAnswered400 ==
    C12_LacksField => post_call.response = C12_Expected(post_call.body)

\* C12 amended (SpecPost): with TABLE_NAME configured, an admitted POST
\* /metrics whose body lacks a required field is answered 400 naming the
\* first missing field in the order service_name, metric_type, value, with
\* no store put, no queue send and no sink call (each call count is 0, so
\* nothing is retried), and the invocation that answers it does not
\* increment the failure counter.
C12_MissingFieldAnswered400WhenConfigured ==
    /\ []((C12_LacksField /\ post_call.env.table_name)
             => post_call.response = C12_Expected(post_call.body))
    /\ [][(post_call' # post_call /\ post_call'.response.statusCode = 400)
             => circuit_breaker'.failures <= circuit_breaker.failures]_vars

C12_Witness ==
    /\ C12_LacksField
    /\ post_call.env.table_name
    /\ post_call.body.fields = {"service_name", "value"}
    /\ post_call.response.statusCode = 400
    /\ post_call.response.error = "metric_type"
    /\ failures = 2

\* C13 (SpecSeq): a request answered 400 (missing required field or
\* unparsable JSON) leaves the breaker's state, failure counter and
\* last_failure_time exactly as they were when it was admitted, in CLOSED
\* and in HALF_OPEN.
C13_ValidationErrorLeavesBreaker ==
    [][(last'.response.statusCode = 400 /\ RecordsSuccess)
          => circuit_breaker' = circuit_breaker]_vars

\* The last resilient-api invocation was admitted and routed to the given
\* method and path.
r_admitted(httpMethod, path) ==
    /\ r_last.called
    /\ r_last.recorded # "-"
    /\ r_last.httpMethod = httpMethod
    /\ r_last.path = path

\* The last resilient-api invocation was an admitted POST /metrics with a
\* valid body, so it took the write path.
r_write == r_admitted("POST", "/metrics") /\ r_last.body = "ok"

C15_WriteRetriesOverload ==
    r_write =>
        /\ r_last.plan.store = <<"overload", "overload", "ok">>
              => r_last.response.statusCode = 201
        /\ (r_last.plan.store = <<"overload", "overload", "overload">>
              /\ r_last.plan.queue = "ok")
              => r_last.response.statusCode = 202

\* C17 (SpecResilient): an overload on the direct write is counted as a
\* breaker failure only if the fallback also fails.  When the enqueue
\* succeeds the request is answered 202 and a success is recorded, the
\* failure counter not incremented; when the enqueue raises it is answered
\* 500 and exactly one failure is recorded.
C17_OverloadCountedOnlyIfFallbackFails ==
    (r_write /\ r_last.plan.store[1] = "overload") =>
        IF r_last.plan.queue = "ok"
        THEN /\ r_last.response.statusCode = 202
             /\ r_last.recorded = "success"
             /\ r_circuit_breaker.failure_count <= r_last.cb_before.failure_count
        ELSE /\ r_last.response.statusCode = 500
             /\ r_last.recorded = "failure"
             /\ r_circuit_breaker.failure_count = r_last.cb_before.failure_count + 1

\* C18 (SpecResilient): on the write path a store error of a class other
\* than overload is propagated after exactly one store attempt: nothing is
\* enqueued, the request is answered 500 and exactly one failure is
\* recorded.
C18_OtherStoreErrorPropagates ==
    (r_write /\ r_last.plan.store[1] \in {"client_error", "exception"}) =>
        /\ r_last.response.store_calls = 1
        /\ r_last.response.queue_calls = 0
        /\ r_last.response.statusCode = 500
        /\ r_last.recorded = "failure"
        /\ r_circuit_breaker.failure_count = r_last.cb_before.failure_count + 1

\* C19 (SpecResilient): get_metrics_with_retry retries only the overload
\* error.  When the first store call raises any other error (ClientError
\* with another code, or another exception class) the error propagates
\* after exactly one attempt and no backoff sleep.
C19_OnlyOverloadRetried ==
    (r_admitted("GET", "/metrics")
        /\ r_last.plan.store[1] \in {"client_error", "exception"}) =>
        /\ r_last.recorded = "failure"
        /\ r_last.response.store_calls = 1
        /\ r_last.response.sleeps = 0

\* C20 (SpecResilient): the health check reports 'degraded' with statusCode
\* 503 exactly when at least one probed dependency raised during its probe,
\* and 'healthy' with 200 otherwise; a probe's exception never escapes.
C20_DegradedIffProbeRaised ==
    r_admitted("GET", "/health") =>
        LET probe_raised == \/ r_last.plan.store[1] # "ok"
                            \/ r_last.plan.queue # "ok"
        IN  /\ r_last.recorded = "success"
            /\ IF probe_raised
               THEN /\ r_last.response.status = "degraded"
                    /\ r_last.response.statusCode = 503
               ELSE /\ r_last.response.status = "healthy"
                    /\ r_last.response.statusCode = 200

\* C16 (SpecPost): each POST /metrics the API handler accepts (201) writes
\* the record exactly once, directly or through the queue but not both;
\* counting the puts of the queue consumer's process_metric_data, the
\* accepted metric is stored exactly once when the queue has drained.
C16_AcceptedMetricStoredOnce ==
    (post_call.called /\ post_call.response.statusCode = 201) =>
        /\ ~(post_call.response.stored /\ post_call.response.queued)
        /\ post_call.in_queue = 0 => post_call.records = 1

\* The health-monitor invocation ran with TABLE_NAME configured.
m_ran == monitor.called /\ monitor.input.table_name

\* The invocation got as far as calculate_slo_metrics.
m_slo == m_ran /\ monitor.result.slo_computed

\* C21 (SpecMonitor): the health monitor's lambda_handler never lets an
\* exception escape: whatever the probes, the store and the metrics sink
\* do, the invocation returns a response with statusCode 200 or 500.
C21_MonitorNeverRaises ==
    monitor.called =>
        /\ monitor.result.outcome = "returned"
        /\ monitor.result.statusCode \in {200, 500}

\* C22 (SpecMonitor): each invocation with TABLE_NAME configured writes
\* exactly one HEALTH_CHECK sample for 'api-gateway' and exactly one for
\* 'dynamodb', with Value 1.0 if the respective probe was healthy and 0.0
\* if it was not, whatever the probes' outcomes.
C22_OneSamplePerDependency ==
    m_ran =>
        /\ monitor.result.api_samples =
              <<IF monitor.result.api_health.healthy THEN 1 ELSE 0>>
        /\ monitor.result.dynamodb_samples =
              <<IF monitor.input.probe_scan_ok THEN 1 ELSE 0>>

\* C23 (SpecMonitor): test_api_health returns healthy = True if and only if
\* the HTTP probe returned status 200; in every other case (another status,
\* an exception, API_URL not configured) it returns healthy = False with an
\* error description that is not None.
C23_HealthyIffStatus200 ==
    m_ran =>
        LET h == monitor.result.api_health
            inp == monitor.input
        IN  /\ h.healthy <=> (inp.api_url /\ ~inp.http.raised /\ inp.http.status = 200)
            /\ ~h.healthy => h.error \notin {"None", "-"}

C23_Witness ==
    /\ m_ran
    /\ monitor.input.api_url
    /\ monitor.input.http = [raised |-> FALSE, status |-> 204]
    /\ ~monitor.result.api_health.healthy
    /\ monitor.result.api_health.error = "Non-200 status code"

\* C24 (SpecMonitor): calculate_slo_metrics returns total_checks equal to
\* the number of samples the scan returned, successful_checks the number of
\* those with Value > 0, failed_checks their difference and
\* availability_percentage = successful_checks / total_checks * 100; with
\* zero samples availability_percentage is 0.0 and all counts are 0; 99
\* successes out of 100 samples give 99.0.
C24_SloCounts ==
    (m_slo /\ monitor.input.window.scan_ok) =>
        LET w == monitor.input.window
            m == monitor.result.slo_metrics
        IN  /\ m.total_checks = w.healthy + w.unhealthy
            /\ m.successful_checks = w.healthy
            /\ m.failed_checks = m.total_checks - m.successful_checks
            /\ m.total_checks > 0 =>
                  RatEq(m.availability_percentage,
                        Rat(100 * m.successful_checks, m.total_checks))
            /\ m.total_checks = 0 =>
                  /\ RatEq(m.availability_percentage, Rat(0, 1))
                  /\ m.successful_checks = 0 /\ m.failed_checks = 0
            /\ (w.healthy = 99 /\ w.unhealthy = 1) =>
                  RatEq(m.availability_percentage, Rat(99, 1))

C24_Witness ==
    /\ m_slo
    /\ monitor.input.window = [scan_ok |-> TRUE, healthy |-> 99, unhealthy |-> 1]
    /\ monitor.result.slo_metrics.total_checks = 100
    /\ RatEq(monitor.result.slo_metrics.availability_percentage, Rat(99, 1))

\* C25 (SpecMonitor): for every window error_budget_remaining =
\* max(0, (100 - 99.9) - (100 - availability_percentage)); it lies in
\* [0, 0.1], and it is strictly positive only when fewer than 0.1% of the
\* samples in the window failed.
C25_ErrorBudgetRemaining ==
    m_slo =>
        LET m == monitor.result.slo_metrics
            expected ==
                RatMax(Rat(0, 1),
                       RatSub(RatSub(Rat(100, 1), Rat(999, 10)),
                              RatSub(Rat(100, 1), m.availability_percentage)))
        IN  /\ RatEq(m.error_budget_remaining, expected)
            /\ ~RatLess(m.error_budget_remaining, Rat(0, 1))
            /\ ~RatLess(Rat(1, 10), m.error_budget_remaining)
            /\ RatLess(Rat(0, 1), m.error_budget_remaining) =>
                  1000 * m.failed_checks < m.total_checks

C25_Witness ==
    /\ m_slo
    /\ monitor.result.slo_metrics.failed_checks = 1
    /\ monitor.result.slo_metrics.total_checks = 10000
    /\ RatEq(monitor.result.slo_metrics.error_budget_remaining, Rat(9, 100))

\* C26 (SpecMonitor): check_error_budget classifies every snapshot in
\* exactly one way: HIGH when error_budget_remaining < 0.05, MEDIUM when
\* 0.05 <= error_budget_remaining < 0.075, no alert otherwise
\* (0.03 -> HIGH, 0.06 -> MEDIUM, 0.09 -> no alert).
C26_AlertClassification ==
    (m_slo /\ monitor.result.statusCode = 200) =>
        LET r == monitor.result.slo_metrics.error_budget_remaining
            alert == monitor.result.alert
        IN  /\ alert \in {"HIGH", "MEDIUM", "None"}
            /\ alert = "HIGH" <=> RatLess(r, Rat(5, 100))
            /\ alert = "MEDIUM" <=> (~RatLess(r, Rat(5, 100)) /\ RatLess(r, Rat(75, 1000)))
            /\ RatEq(r, Rat(3, 100)) => alert = "HIGH"
            /\ RatEq(r, Rat(6, 100)) => alert = "MEDIUM"
            /\ RatEq(r, Rat(9, 100)) => alert = "None"

C26_Witness ==
    /\ m_slo
    /\ monitor.result.statusCode = 200
    /\ RatEq(monitor.result.slo_metrics.error_budget_remaining, Rat(6, 100))
    /\ monitor.result.alert = "MEDIUM"

\* C27 (SpecMonitor): when the window holds zero samples, or the window
\* scan fails, the snapshot has availability_percentage 0.0 and
\* error_budget_remaining 0.0, and check_error_budget returns a HIGH alert
\* for it.
C27_MissingDataAlertsHigh ==
    (m_slo /\ (~monitor.input.window.scan_ok
                  \/ monitor.input.window.healthy + monitor.input.window.unhealthy = 0)) =>
        LET m == monitor.result.slo_metrics
        IN  /\ RatEq(m.availability_percentage, Rat(0, 1))
            /\ RatEq(m.error_budget_remaining, Rat(0, 1))
            /\ check_error_budget(m) = "HIGH"
            /\ monitor.result.statusCode = 200 => monitor.result.alert = "HIGH"

C27_Witness ==
    /\ m_slo
    /\ ~monitor.input.window.scan_ok
    /\ monitor.result.slo_metrics.error
    /\ monitor.result.statusCode = 200
    /\ monitor.result.alert = "HIGH"

\* C28 (Spec): an OPTIONS request to the API handler is answered 200
\* with the CORS headers in every breaker state, OPEN within the timeout
\* included; it passes no admission check and records no outcome, so it
\* leaves the breaker exactly as it was (it never moves OPEN to HALF_OPEN).
C28_PreflightBypassesBreaker ==
    [][\A p \in Procs, ev \in Events :
          (ev.httpMethod = "OPTIONS" /\ Receive(p, ev)) =>
              /\ last'.response.statusCode = 200
              /\ last'.response.error = "CORS preflight"
              /\ last'.cors_headers
              /\ last'.recorded = "-"
              /\ circuit_breaker' = circuit_breaker]_vars

C28_Witness ==
    /\ last.httpMethod = "OPTIONS"
    /\ last.response.statusCode = 200
    /\ last.cors_headers
    /\ state = "OPEN"
    /\ now - last_failure_time <= timeout

\* C29 (SpecSeq): when a handler rejects a request because its breaker is
\* open, the 503 response both echoes the breaker's current state and
\* carries a retry-after hint of 60 seconds; this holds for the API handler
\* and for the resilient-api handler.
C29_RejectionEchoesStateAndRetryAfter ==
    /\ last.response.error = "Service temporarily unavailable" =>
          /\ last.response.statusCode = 503
          /\ last.response.cb_echo = state
          /\ last.response.retry_after = 60
    /\ (r_last.called /\ r_last.response.error = "Service temporarily unavailable") =>
          /\ r_last.response.statusCode = 503
          /\ r_last.response.cb_echo = r_circuit_breaker.state
          /\ r_last.response.retry_after = 60

\* C30 (SpecRace): breaker mutations are protected against concurrent
\* read-modify-write races: when calls of record_circuit_breaker_failure
\* run concurrently in one process, no update is lost; once the calls have
\* returned the counter is higher by exactly the number of calls, and the
\* breaker is OPEN if that number reaches the threshold.
C30_NoLostUpdate ==
    (\A t \in Threads : thr[t].pc = "idle") =>
        /\ failures = calls_done
        /\ calls_done >= failure_threshold => state = "OPEN"

\* C31 (Spec): after the OPEN -> HALF_OPEN transition has admitted a
\* request, that request is a single probe: the admission check admits no
\* second request until the probe's outcome has been recorded, so at most
\* one admitted request is in flight while the breaker is HALF_OPEN.
C31_SingleProbeInHalfOpen ==
    Cardinality({p \in Procs : req[p].pc = "admitted"
                                 /\ req[p].admitted_in = "HALF_OPEN"}) <= 1

RECURSIVE Flatten(_, _)
Flatten(seqs, i) ==
    IF i > Len(seqs) THEN <<>> ELSE seqs[i] \o Flatten(seqs, i + 1)

C35_OverloadRetriedThreeTimes ==
    (r_admitted("GET", "/metrics")
        /\ r_last.plan.store = <<"overload", "overload", "overload">>) =>
        /\ r_last.response.store_calls = max_retries
        /\ r_last.response.sleeps = max_retries - 1
        /\ r_last.response.raised = "ClientError"
        /\ r_last.recorded = "failure"

\* The state changes the breaker's three functions can make.
Transitions ==
    {<<"CLOSED", "OPEN">>, <<"OPEN", "HALF_OPEN">>,
     <<"HALF_OPEN", "CLOSED">>, <<"HALF_OPEN", "OPEN">>}

\* C36 (Spec): across all reachable behaviours of the API handler the
\* breaker state changes only along CLOSED -> OPEN, OPEN -> HALF_OPEN,
\* HALF_OPEN -> CLOSED and HALF_OPEN -> OPEN (never OPEN -> CLOSED, never
\* CLOSED -> HALF_OPEN), and in CLOSED the failure counter is always below
\* failure_threshold.
C36_OnlyBreakerTransitions ==
    /\ [](state = "CLOSED" => failures < failure_threshold)
    /\ [][circuit_breaker'.state # state =>
             <<state, circuit_breaker'.state>> \in Transitions]_vars

C36_Witness ==
    /\ state = "OPEN"
    /\ failures = failure_threshold + 1
    /\ last.recorded = "failure"
    /\ last.admitted_in = "HALF_OPEN"
    /\ last.state_at_record = "HALF_OPEN"

\* C37 (SpecPost): in handle_post_metrics a response with statusCode 500
\* implies that the call wrote no record to the store and sent no message
\* to the queue, whichever of the store put, the queue send or the
\* metrics-sink call was the step that raised.
C37_FailedPostHasNoEffect ==
    (post_call.called /\ post_call.response.statusCode = 500) =>
        /\ ~post_call.response.stored
        /\ ~post_call.response.queued

\* C38 (SpecHealth): when requests are handled one at a time,
\* handle_health_check (API handler) and comprehensive_health_check
\* (resilient-api handler) are never executed through lambda_handler while
\* the breaker state is OPEN: every /health response produced through the
\* handler reports the breaker as CLOSED or HALF_OPEN, and the resilient
\* handler's 'OPEN implies degraded' branch is never taken.
C38_HealthNeverRunsWhileOpen ==
    /\ (last.path = "/health" /\ last.recorded = "success") =>
          last.response.cb_echo \in {"CLOSED", "HALF_OPEN"}
    /\ r_admitted("GET", "/health") =>
          /\ r_last.response.cb_echo \in {"CLOSED", "HALF_OPEN"}
          /\ r_last.response.status = "degraded" =>
                (r_last.response.store_ok = 0 \/ r_last.response.queue_ok = 0)

C38_Witness ==
    /\ last.path = "/health"
    /\ last.recorded = "success"
    /\ last.admitted_in = "HALF_OPEN"
    /\ last.response.cb_echo = "HALF_OPEN"
    /\ r_admitted("GET", "/health")
    /\ r_last.cb_before.state = "OPEN"
    /\ r_last.response.cb_echo = "HALF_OPEN"

\* C39 (SpecMonitor): in exact arithmetic the alert decision of
\* check_error_budget applied to the snapshot of calculate_slo_metrics
\* depends only on the counts: no alert is raised if and only if
\* total_checks > 0 and failed_checks * 4000 <= total_checks, and the alert
\* is HIGH whenever failed_checks * 2000 > total_checks (so with fewer than
\* 2000 samples a single failed check yields HIGH).
C39_AlertFromCounts ==
    m_slo =>
        LET m == monitor.result.slo_metrics
            alert == check_error_budget(m)
        IN  /\ alert = "None" <=>
                  (m.total_checks > 0 /\ m.failed_checks * 4000 <= m.total_checks)
            /\ m.failed_checks * 2000 > m.total_checks => alert = "HIGH"
            /\ (m.total_checks > 0 /\ m.total_checks < 2000 /\ m.failed_checks >= 1) =>
                  alert = "HIGH"
            /\ monitor.result.statusCode = 200 => monitor.result.alert = alert

C39_Witness ==
    /\ m_slo
    /\ monitor.result.statusCode = 200
    /\ monitor.result.slo_metrics.total_checks = 1000
    /\ monitor.result.slo_metrics.failed_checks = 1
    /\ monitor.result.alert = "HIGH"

\* C34 (SpecResilientConc): in the resilient-api handler, whose
\* record_circuit_breaker_success takes one off failure_count in every
\* state other than HALF_OPEN, the invariant still holds when requests are
\* handled concurrently: state = OPEN implies failure_count >=
\* FAILURE_THRESHOLD, and a failure recorded while HALF_OPEN always returns
\* the breaker to OPEN.
C34_DecayKeepsOpenInvariant ==
    /\ [](r_circuit_breaker.state = "OPEN" =>
             r_circuit_breaker.failure_count >= FAILURE_THRESHOLD)
    /\ [][\A p \in Procs :
             (RFinish(p) /\ r_last'.recorded = "failure"
                 /\ r_circuit_breaker.state = "HALF_OPEN") =>
                 r_circuit_breaker'.state = "OPEN"]_vars

\* C33 (SpecLive): automatic recovery.  If the breaker is OPEN, no further
\* failure is recorded, time keeps advancing and requests keep arriving,
\* then eventually an admission check returns True with the state
\* HALF_OPEN, and once a request admitted after that completes without an
\* exception the state is CLOSED with failures = 0; the breaker never stays
\* OPEN forever.
C33_AutomaticRecovery ==
    /\ (state = "OPEN") ~> (state = "HALF_OPEN" /\ req[SeqProc].pc = "admitted")
    /\ (state = "HALF_OPEN") ~> (state = "CLOSED" /\ failures = 0)
    /\ ~<>[](state = "OPEN")

C33_Witness ==
    /\ state = "CLOSED"
    /\ failures = 0
    /\ last.recorded = "success"
    /\ last.admitted_in = "HALF_OPEN"
    /\ last.path = "/metrics"
    /\ now - last_failure_time > timeout

====
